---- MODULE Spec2Model ----
(***************************************************************************)
(* Model of yt-dlp-web (src/src/main.rs): the /api/download pipeline.      *)
(* One request runs download_video: get_video_title (title-mode yt-dlp),   *)
(* then get_video_stream (fetch-mode yt-dlp writing to a temp path, then   *)
(* File::open), then the body is streamed from the open file by the HTTP   *)
(* layer.  Strings are sequences of byte values (0..255).                  *)
(***************************************************************************)
EXTENDS Integers, Sequences, FiniteSets, TLC

\* ------------------------------------------------------------------ bounds

\* Longest media file the extractor writes, in bytes.
MaxFileLen == 2

\* Bytes one poll of the ReaderStream yields at most (the read buffer).
ChunkCap == 1

\* The concurrent requests and the identifiers Uuid::new_v4 can draw.
Requests == {"r1", "r2"}
Uuids == {"id1", "id2"}

\* ------------------------------------------------------------ byte strings

\* "video"
VideoLiteral == <<118, 105, 100, 101, 111>>

\* "attachment; filename="
AttachmentPrefix ==
    <<97, 116, 116, 97, 99, 104, 109, 101, 110, 116, 59, 32,
      102, 105, 108, 101, 110, 97, 109, 101, 61>>

OctetStream == "application/octet-stream"
TextPlain == "text/plain; charset=utf-8"
GenericError == "Error downloading video stream"
QueryRejection == "Failed to deserialize query string"

\* Option<T> as a sequence of length at most one.
None == <<>>
Some(x) == <<x>>

\* Result<String, DownloadError>, with uniform fields.
Ok(v) == [ok |-> TRUE, val |-> v, err |-> "", code |-> None]
Err(kind, c) == [ok |-> FALSE, val |-> <<>>, err |-> kind, code |-> c]

Min(a, b) == IF a < b THEN a ELSE b

IsPrefix(s, t) == Len(s) <= Len(t) /\ SubSeq(t, 1, Len(s)) = s

Drop(s, n) == SubSeq(s, n + 1, Len(s))

\* String::from_utf8: whether the bytes are well-formed UTF-8.
IsCont(b) == b >= 128 /\ b <= 191

RECURSIVE Utf8Valid(_)
Utf8Valid(s) ==
    IF s = <<>> THEN TRUE
    ELSE LET b == s[1]
             n == Len(s)
         IN  IF b < 128 THEN Utf8Valid(Tail(s))
             ELSE IF b >= 194 /\ b <= 223
                  THEN n >= 2 /\ IsCont(s[2]) /\ Utf8Valid(Drop(s, 2))
             ELSE IF b >= 224 /\ b <= 239
                  THEN /\ n >= 3
                       /\ IsCont(s[2])
                       /\ (b = 224 => s[2] >= 160)
                       /\ (b = 237 => s[2] <= 159)
                       /\ IsCont(s[3])
                       /\ Utf8Valid(Drop(s, 3))
             ELSE IF b >= 240 /\ b <= 244
                  THEN /\ n >= 4
                       /\ IsCont(s[2])
                       /\ (b = 240 => s[2] >= 144)
                       /\ (b = 244 => s[2] <= 143)
                       /\ IsCont(s[3])
                       /\ IsCont(s[4])
                       /\ Utf8Valid(Drop(s, 4))
             ELSE FALSE

\* The encodings of the characters with the White_Space property, which
\* str::trim removes: U+0009..U+000D, U+0020, U+0085, U+00A0, U+1680,
\* U+2000..U+200A, U+2028, U+2029, U+202F, U+205F, U+3000.
IsWhitespace(c) ==
    \/ Len(c) = 1 /\ ((c[1] >= 9 /\ c[1] <= 13) \/ c[1] = 32)
    \/ Len(c) = 2 /\ c[1] = 194 /\ c[2] \in {133, 160}
    \/ Len(c) = 3 /\ c[1] = 225 /\ c[2] = 154 /\ c[3] = 128
    \/ Len(c) = 3 /\ c[1] = 226 /\ c[2] = 128
                  /\ ((c[3] >= 128 /\ c[3] <= 138) \/ c[3] \in {168, 169, 175})
    \/ Len(c) = 3 /\ c[1] = 226 /\ c[2] = 129 /\ c[3] = 159
    \/ Len(c) = 3 /\ c[1] = 227 /\ c[2] = 128 /\ c[3] = 128

\* Length in bytes of the whitespace character s starts (ends) with, or 0.
LeadingWs(s) ==
    LET ks == {k \in 1..Min(3, Len(s)) : IsWhitespace(SubSeq(s, 1, k))}
    IN  IF ks = {} THEN 0 ELSE CHOOSE k \in ks : TRUE

TrailingWs(s) ==
    LET ks == {k \in 1..Min(3, Len(s)) :
                  IsWhitespace(SubSeq(s, Len(s) - k + 1, Len(s)))}
    IN  IF ks = {} THEN 0 ELSE CHOOSE k \in ks : TRUE

RECURSIVE TrimStart(_)
TrimStart(s) ==
    IF LeadingWs(s) = 0 THEN s ELSE TrimStart(Drop(s, LeadingWs(s)))

RECURSIVE TrimEnd(_)
TrimEnd(s) ==
    IF TrailingWs(s) = 0 THEN s
    ELSE TrimEnd(SubSeq(s, 1, Len(s) - TrailingWs(s)))

\* str::trim
trim(s) == TrimEnd(TrimStart(s))

\* urlencoding::encode: every byte but A-Z a-z 0-9 - _ . ~ becomes %XX.
IsUnreserved(b) ==
    \/ b >= 48 /\ b <= 57
    \/ b >= 65 /\ b <= 90
    \/ b >= 97 /\ b <= 122
    \/ b \in {45, 46, 95, 126}

\* A faulty variant of HexDigit: the digits above 9 are not mapped to letters.
HexDigitDecimal(n) == 48 + n

\* The upper-case hexadecimal digit of a nibble.
HexDigit(n) == IF n < 10 THEN 48 + n ELSE 55 + n

RECURSIVE encode(_)
encode(s) ==
    IF s = <<>> THEN <<>>
    ELSE (IF IsUnreserved(s[1]) THEN <<s[1]>>
          ELSE <<37, HexDigit(s[1] \div 16), HexDigit(s[1] % 16)>>)
         \o encode(Tail(s))

\* HeaderValue::from_str (".parse()"): no control byte but the tab.
HeaderValueValid(s) ==
    \A i \in 1..Len(s) : (s[i] >= 32 /\ s[i] # 127) \/ s[i] = 9

\* ------------------------------------------------------ external extractor

\* The url query parameter: absent, empty, or a media URL.
Urls == {"", "u1"}
Queries == {None} \cup {Some(u) : u \in Urls}

\* Exit statuses of a finished process: killed by a signal (no code), or a code.
TitleStatuses == {None, Some(0), Some(1)}
VideoStatuses == {None, Some(0), Some(1), Some(2)}

\* What the extractor prints in title mode: "a b\n", " #<e-acute>\n", and a
\* truncated two-byte sequence (not UTF-8).
TitleStdouts == {<<97, 32, 98, 10>>, <<32, 35, 195, 169, 10>>, <<97, 195>>}

\* What the extractor prints in fetch mode, <<stdout, stderr>>: "ok" and a
\* byte that is not UTF-8, on either stream.
VideoOutputs == {<<<<111, 107>>, <<>>>>, <<<<255>>, <<>>>>, <<<<111, 107>>, <<255>>>>}

\* The i-th byte of the media the extractor produces for a URL.
Media(u, i) ==
    (16 * i + (IF u = "u1" THEN 1 ELSE 2)) % 256

\* ProcessResult: the Output of one Command, or the failure to launch it.
Output(l, st, out, errout) ==
    [launched |-> l, status |-> st, stdout |-> out, stderr |-> errout]
NoOutput == Output(FALSE, None, <<>>, <<>>)

\* ------------------------------------------------------------------- state

VARIABLES
    pc,         \* the phase of each request
    url,        \* payload.url
    cmd,        \* the Output of the request's last finished command
    titleProc,  \* the title-mode process: none, running, exited, unlaunched
    fetchProc,  \* the fetch-mode process: none, running, exited, unlaunched
    title,      \* the title get_video_title returned (None before, or on Err)
    fellBack,   \* whether download_video took the Err arm of the title match
    filename,   \* the filename download_video computed
    path,       \* the temp path get_video_stream allocated (None before)
    wrote,      \* the bytes the request's fetch-mode extractor has written
    fileOpen,   \* whether the request holds the temp file open (the stream)
    status,     \* the status of the response (0 before there is one)
    headers,    \* the headers of the response
    message,    \* the text body of an error response
    body,       \* the streamed bytes the client has received
    titleCalls, \* title-mode invocations attempted
    fetchCalls, \* fetch-mode invocations attempted
    disk,       \* the temp directory: path -> None, or Some(content)
    fetchArgs,  \* the arguments the fetch-mode command was launched with
    tempfile,   \* the result of File::open (None while it was not called)
    health,     \* the last response of GET /health (None before the first)
    probe,      \* an Output handed to the classifiers on its own
    probed      \* what the classifiers made of probe

vars == <<pc, url, cmd, titleProc, fetchProc, title, fellBack, filename, path, wrote, fileOpen,
          status, headers, message, body, titleCalls, fetchCalls, disk,
          fetchArgs, tempfile, health, probe, probed>>

TempPath(u) == <<"ytdlp-web-", u, ".mp4">>
Paths == {TempPath(u) : u \in Uuids}

NoHeaders == [contentDisposition |-> <<>>, contentType |-> ""]
ErrorHeaders == [contentDisposition |-> <<>>, contentType |-> TextPlain]
DownloadHeaders(fn) ==
    [contentDisposition |-> AttachmentPrefix \o fn, contentType |-> OctetStream]

\* The statuses of the responses.
OkStatus == 200
BadRequest == 400
ErrorStatus == 500

\* No classifier has run on probe.
NoProbe == [kind |-> "none", res |-> Ok(<<>>), name |-> <<>>, opened |-> FALSE]

\* The server after start-up: no request, nothing in the temp directory.
ServerInit ==
    /\ fetchArgs = [r \in Requests |-> None]
    /\ tempfile = [r \in Requests |-> None]
    /\ health = None
    /\ pc = [r \in Requests |-> "Idle"]
    /\ url = [r \in Requests |-> ""]
    /\ cmd = [r \in Requests |-> NoOutput]
    /\ titleProc = [r \in Requests |-> "none"]
    /\ fetchProc = [r \in Requests |-> "none"]
    /\ title = [r \in Requests |-> None]
    /\ fellBack = [r \in Requests |-> FALSE]
    /\ filename = [r \in Requests |-> <<>>]
    /\ path = [r \in Requests |-> None]
    /\ wrote = [r \in Requests |-> <<>>]
    /\ fileOpen = [r \in Requests |-> FALSE]
    /\ status = [r \in Requests |-> 0]
    /\ headers = [r \in Requests |-> NoHeaders]
    /\ message = [r \in Requests |-> ""]
    /\ body = [r \in Requests |-> <<>>]
    /\ titleCalls = [r \in Requests |-> 0]
    /\ fetchCalls = [r \in Requests |-> 0]
    /\ disk = [p \in Paths |-> None]

Init ==
    /\ ServerInit
    /\ probe = NoOutput
    /\ probed = NoProbe

\* ---------------------------------------------------------- pure functions

\* A faulty variant of get_video_title: stdout is decoded before the exit status
\* is looked at, as get_video_stream does.
get_video_title_DecodeFirst(c) ==
    IF ~c.launched THEN Err("TitleCommand", None)
    ELSE IF ~Utf8Valid(c.stdout) THEN Err("FromUtf8", None)
    ELSE IF c.status = None THEN Err("TitleExitNoCode", None)
    ELSE IF c.status[1] # 0 THEN Err("TitleExitErrorCode", c.status)
    ELSE Ok(trim(c.stdout))

\* get_video_title, from the Output of the title-mode command.
get_video_title(c) ==
    IF ~c.launched THEN Err("TitleCommand", None)
    ELSE IF c.status = None THEN Err("TitleExitNoCode", None)
    ELSE IF c.status[1] # 0 THEN Err("TitleExitErrorCode", c.status)
    ELSE IF ~Utf8Valid(c.stdout) THEN Err("FromUtf8", None)
    ELSE Ok(trim(c.stdout))

\* A faulty variant of TitleFilename: no fallback literal on Err.
TitleFilenameNoFallback(res) == encode(res.val)

\* download_video's match on the title: the filename of the header.
TitleFilename(res) == IF res.ok THEN encode(res.val) ELSE VideoLiteral

\* File::open(path): the file must exist, and the open itself may fail.
FileOpens(d, p, permitted) == d[p] # None /\ permitted

\* A faulty variant of get_video_stream: a process killed by a signal (no exit code)
\* passes for a success.
get_video_stream_KilledOk(c, opened) ==
    IF ~c.launched THEN Err("VideoCommand", None)
    ELSE IF ~Utf8Valid(c.stdout) THEN Err("FromUtf8", None)
    ELSE IF ~Utf8Valid(c.stderr) THEN Err("FromUtf8", None)
    ELSE IF c.status # None /\ c.status[1] # 0
         THEN Err("VideoExitErrorCode", c.status)
    ELSE IF ~opened THEN Err("TempFileOpen", None)
    ELSE Ok(<<>>)

\* get_video_stream, from the Output of the fetch-mode command and the open.
get_video_stream(c, opened) ==
    IF ~c.launched THEN Err("VideoCommand", None)
    ELSE IF ~Utf8Valid(c.stdout) THEN Err("FromUtf8", None)
    ELSE IF ~Utf8Valid(c.stderr) THEN Err("FromUtf8", None)
    ELSE IF c.status = None THEN Err("VideoExitNoCode", None)
    ELSE IF c.status[1] # 0 THEN Err("VideoExitErrorCode", c.status)
    ELSE IF ~opened THEN Err("TempFileOpen", None)
    ELSE Ok(<<>>)

\* A faulty variant of NewV4: identifiers that may repeat.
NewV4Repeating == Uuids

\* Uuid::new_v4: a fresh random identifier (no two calls return the same).
NewV4 == {u \in Uuids : \A r \in Requests : path[r] # Some(TempPath(u))}

\* A faulty variant of ReadChunk: every poll reads from the start of the file.
ReadChunkFromStart(content, offset) ==
    SubSeq(content, 1, Min(ChunkCap, Len(content)))

\* One poll of ReaderStream: the next bytes of the file after offset.
ReadChunk(content, offset) ==
    SubSeq(content, offset + 1, Min(offset + ChunkCap, Len(content)))

\* ----------------------------------------------------------------- actions

\* A GET /api/download arrives; Query<DownloadVideoRequest> extracts url.  A
\* query without the url field is rejected before the handler runs; any
\* string, the empty one included, deserializes.
Receive(r, q) ==
    /\ pc[r] = "Idle"
    /\ IF q = None
       THEN /\ pc' = [pc EXCEPT ![r] = "Rejected"]
            /\ status' = [status EXCEPT ![r] = BadRequest]
            /\ headers' = [headers EXCEPT ![r] = ErrorHeaders]
            /\ message' = [message EXCEPT ![r] = QueryRejection]
            /\ url' = url
       ELSE /\ pc' = [pc EXCEPT ![r] = "Received"]
            /\ url' = [url EXCEPT ![r] = q[1]]
            /\ UNCHANGED <<status, headers, message>>
    /\ UNCHANGED <<fetchArgs, health, probe, probed, tempfile,
                   cmd, titleProc, fetchProc, title, fellBack, filename, path,
                   wrote, fileOpen, body, titleCalls, fetchCalls, disk>>

\* A faulty variant of TitleMatch: a failed title-mode invocation is tried again.
TitleMatchRetry(r, res) ==
    /\ filename' = [filename EXCEPT ![r] = TitleFilename(res)]
    /\ title' = [title EXCEPT ![r] = IF res.ok THEN Some(res.val) ELSE None]
    /\ fellBack' = [fellBack EXCEPT ![r] = ~res.ok]
    /\ pc' = [pc EXCEPT ![r] = IF res.ok THEN "TitleResolved" ELSE "Received"]

\* A faulty variant of TitleMatch: a failed title-mode invocation fails the request.
TitleMatchAbort(r, res) ==
    /\ filename' = [filename EXCEPT ![r] = TitleFilename(res)]
    /\ title' = [title EXCEPT ![r] = IF res.ok THEN Some(res.val) ELSE None]
    /\ fellBack' = [fellBack EXCEPT ![r] = ~res.ok]
    /\ pc' = [pc EXCEPT ![r] = IF res.ok THEN "TitleResolved" ELSE "FetchFailed"]

\* download_video's match on the Result of get_video_title.
TitleMatch(r, res) ==
    /\ filename' = [filename EXCEPT ![r] = TitleFilename(res)]
    /\ title' = [title EXCEPT ![r] = IF res.ok THEN Some(res.val) ELSE None]
    /\ fellBack' = [fellBack EXCEPT ![r] = ~res.ok]
    /\ pc' = [pc EXCEPT ![r] =
                 IF res.ok THEN "TitleResolved" ELSE "TitleFallback"]

\* download_video calls get_video_title: the title-mode command is launched.
\* A launch failure is TitleCommand, and the handler falls back at once.
TitleSpawn(r, launched) ==
    /\ pc[r] = "Received"
    /\ titleCalls' = [titleCalls EXCEPT ![r] = @ + 1]
    /\ IF launched
       THEN /\ pc' = [pc EXCEPT ![r] = "TitleResolving"]
            /\ titleProc' = [titleProc EXCEPT ![r] = "running"]
            /\ UNCHANGED <<cmd, filename, title, fellBack>>
       ELSE /\ cmd' = [cmd EXCEPT ![r] = NoOutput]
            /\ titleProc' = [titleProc EXCEPT ![r] = "unlaunched"]
            /\ TitleMatch(r, get_video_title(NoOutput))
    /\ UNCHANGED <<fetchArgs, health, probe, probed, tempfile,
                   url, fetchProc, path, wrote, fileOpen, status, headers,
                   message, body, fetchCalls, disk>>

\* The title-mode process ends; get_video_title classifies its Output and
\* download_video computes the filename.
TitleExit(r, st, out) ==
    /\ pc[r] = "TitleResolving"
    /\ titleProc[r] = "running"
    /\ titleProc' = [titleProc EXCEPT ![r] = "exited"]
    /\ cmd' = [cmd EXCEPT ![r] = Output(TRUE, st, out, <<>>)]
    /\ TitleMatch(r, get_video_title(cmd'[r]))
    /\ UNCHANGED <<fetchArgs, health, probe, probed, tempfile,
                   url, fetchProc, path, wrote, fileOpen, status, headers,
                   message, body, titleCalls, fetchCalls, disk>>

\* download_video's response when get_video_stream returned res: the error
\* response, or the headers (whose parse is unwrapped) and the stream.
Respond(r, res) ==
    IF ~res.ok
    THEN /\ pc' = [pc EXCEPT ![r] = "FetchFailed"]
         /\ status' = [status EXCEPT ![r] = ErrorStatus]
         /\ headers' = [headers EXCEPT ![r] = ErrorHeaders]
         /\ message' = [message EXCEPT ![r] = GenericError]
         /\ UNCHANGED fileOpen
    ELSE IF ~HeaderValueValid(AttachmentPrefix \o filename[r])
    THEN /\ pc' = [pc EXCEPT ![r] = "Panicked"]
         /\ UNCHANGED <<status, headers, message, fileOpen>>
    ELSE /\ pc' = [pc EXCEPT ![r] = "StreamReady"]
         /\ fileOpen' = [fileOpen EXCEPT ![r] = TRUE]
         /\ status' = [status EXCEPT ![r] = OkStatus]
         /\ headers' = [headers EXCEPT ![r] = DownloadHeaders(filename[r])]
         /\ UNCHANGED message

\* A faulty variant of FetchArgs: the filename made of the title is handed on
\* to the extractor.
FetchArgsTitled(r, p) ==
    <<"-S", "res,ext:mp4:m4a", "--recode", "mp4", "-o", p, url[r], filename[r]>>

\* The arguments of the fetch-mode command.
FetchArgs(r, p) ==
    <<"-S", "res,ext:mp4:m4a", "--recode", "mp4", "-o", p, url[r]>>

\* A faulty variant of TitleAwaited: the fetch is started without awaiting the title.
TitleNotAwaited(r) ==
    pc[r] \in {"TitleResolving", "TitleResolved", "TitleFallback"}

\* get_video_title(url).await: download_video goes on once the title-mode
\* invocation has returned, resolved or not.
TitleAwaited(r) == pc[r] \in {"TitleResolved", "TitleFallback"}

\* download_video calls get_video_stream: a path is allocated under the temp
\* directory and the fetch-mode command is launched with it.  A launch
\* failure is VideoCommand, and the request is answered at once.
FetchSpawn(r, u, launched) ==
    /\ TitleAwaited(r)
    /\ u \in NewV4
    /\ path' = [path EXCEPT ![r] = Some(TempPath(u))]
    /\ fetchCalls' = [fetchCalls EXCEPT ![r] = @ + 1]
    /\ cmd' = [cmd EXCEPT ![r] = NoOutput]
    /\ fetchArgs' = [fetchArgs EXCEPT ![r] = Some(FetchArgs(r, TempPath(u)))]
    /\ IF launched
       THEN /\ pc' = [pc EXCEPT ![r] = "VideoFetching"]
            /\ fetchProc' = [fetchProc EXCEPT ![r] = "running"]
            /\ UNCHANGED <<fileOpen, status, headers, message>>
       ELSE /\ fetchProc' = [fetchProc EXCEPT ![r] = "unlaunched"]
            /\ Respond(r, get_video_stream(NoOutput, FALSE))
    /\ UNCHANGED <<health, probe, probed, tempfile,
                   url, titleProc, title, fellBack, filename, wrote, body,
                   titleCalls, disk>>

\* The running fetch-mode extractor creates the file at its -o path, or
\* appends the next byte of the media to it.
ExtractorWrite(r) ==
    /\ fetchProc[r] = "running"
    /\ LET p == path[r][1]
       IN  IF disk[p] = None
           THEN /\ disk' = [disk EXCEPT ![p] = Some(wrote[r])]
                /\ wrote' = wrote
           ELSE /\ Len(wrote[r]) < MaxFileLen
                /\ wrote' = [wrote EXCEPT ![r] =
                                Append(@, Media(url[r], Len(@) + 1))]
                /\ disk' = [disk EXCEPT ![p] = Some(wrote'[r])]
    /\ UNCHANGED <<fetchArgs, health, probe, probed, tempfile,
                   pc, url, cmd, titleProc, fetchProc, title, fellBack,
                   filename, path, fileOpen, status, headers, message, body,
                   titleCalls, fetchCalls>>

\* A faulty variant of FetchExit: the command is not waited for; the file is
\* opened and the response built while the process runs on.
FetchExitNotAwaited(r, st, out, permitted) ==
    /\ pc[r] = "VideoFetching"
    /\ fetchProc[r] = "running"
    /\ cmd' = [cmd EXCEPT ![r] = Output(TRUE, Some(0), out[1], out[2])]
    /\ tempfile' = [tempfile EXCEPT ![r] =
                       IF get_video_stream(cmd'[r], TRUE).ok
                       THEN Some(FileOpens(disk, path[r][1], permitted))
                       ELSE None]
    /\ Respond(r, get_video_stream(cmd'[r],
                                   FileOpens(disk, path[r][1], permitted)))
    /\ UNCHANGED <<fetchArgs, health, probe, probed,
                   url, titleProc, fetchProc, title, fellBack, filename, path,
                   wrote, body, titleCalls, fetchCalls, disk>>

\* The fetch-mode process ends; get_video_stream decodes its output,
\* classifies its status and opens the file; download_video answers.
FetchExit(r, st, out, permitted) ==
    /\ pc[r] = "VideoFetching"
    /\ fetchProc[r] = "running"
    /\ fetchProc' = [fetchProc EXCEPT ![r] = "exited"]
    /\ cmd' = [cmd EXCEPT ![r] = Output(TRUE, st, out[1], out[2])]
    /\ tempfile' = [tempfile EXCEPT ![r] =
                       IF get_video_stream(cmd'[r], TRUE).ok
                       THEN Some(FileOpens(disk, path[r][1], permitted))
                       ELSE None]
    /\ Respond(r, get_video_stream(cmd'[r],
                                   FileOpens(disk, path[r][1], permitted)))
    /\ UNCHANGED <<fetchArgs, health, probe, probed,
                   url, titleProc, title, fellBack, filename, path, wrote,
                   body, titleCalls, fetchCalls, disk>>

\* The HTTP layer sends the status and headers and starts polling the body.
StreamStart(r) ==
    /\ pc[r] = "StreamReady"
    /\ pc' = [pc EXCEPT ![r] = "Streaming"]
    /\ UNCHANGED <<fetchArgs, health, probe, probed, tempfile,
                   url, cmd, titleProc, fetchProc, title, fellBack, filename, path, wrote, fileOpen,
                   status, headers, message, body, titleCalls, fetchCalls, disk>>

\* The file the stream of r reads: the one at the path it opened.
StreamFile(r) == disk[path[r][1]][1]

\* One poll of the ReaderStream yields the next chunk, sent to the client.
StreamChunk(r) ==
    /\ pc[r] = "Streaming"
    /\ Len(body[r]) < Len(StreamFile(r))
    /\ body' = [body EXCEPT ![r] = @ \o ReadChunk(StreamFile(r), Len(@))]
    /\ UNCHANGED <<fetchArgs, health, probe, probed, tempfile,
                   pc, url, cmd, titleProc, fetchProc, title, fellBack, filename, path, wrote,
                   fileOpen, status, headers, message, titleCalls, fetchCalls,
                   disk>>

\* The read reaches the end of the file: the body ends, the File is dropped.
StreamEnd(r) ==
    /\ pc[r] = "Streaming"
    /\ Len(body[r]) >= Len(StreamFile(r))
    /\ pc' = [pc EXCEPT ![r] = "Completed"]
    /\ fileOpen' = [fileOpen EXCEPT ![r] = FALSE]
    /\ UNCHANGED <<fetchArgs, health, probe, probed, tempfile,
                   url, cmd, titleProc, fetchProc, title, fellBack, filename, path, wrote, status,
                   headers, message, body, titleCalls, fetchCalls, disk>>

\* A read of the file fails: the stream yields the error and the HTTP layer
\* aborts the response, whose status and headers are already sent.
StreamReadError(r) ==
    /\ pc[r] = "Streaming"
    /\ pc' = [pc EXCEPT ![r] = "StreamFailed"]
    /\ fileOpen' = [fileOpen EXCEPT ![r] = FALSE]
    /\ UNCHANGED <<fetchArgs, health, probe, probed, tempfile,
                   url, cmd, titleProc, fetchProc, title, fellBack, filename, path, wrote, status,
                   headers, message, body, titleCalls, fetchCalls, disk>>

\* The client disconnects mid-stream: the Body, and with it the ReaderStream
\* and its File, are dropped.
ClientDisconnect(r) ==
    /\ pc[r] = "Streaming"
    /\ pc' = [pc EXCEPT ![r] = "Abandoned"]
    /\ fileOpen' = [fileOpen EXCEPT ![r] = FALSE]
    /\ UNCHANGED <<fetchArgs, health, probe, probed, tempfile,
                   url, cmd, titleProc, fetchProc, title, fellBack, filename, path, wrote, status,
                   headers, message, body, titleCalls, fetchCalls, disk>>

\* A faulty variant of HealthResponse: unavailable while an extractor runs.
HealthResponseBusy ==
    IF \E r \in Requests : titleProc[r] = "running" \/ fetchProc[r] = "running"
    THEN [status |-> 503, body |-> "Service Unavailable"]
    ELSE [status |-> OkStatus, body |-> "OK"]

\* The response of healthcheck.
HealthResponse == [status |-> OkStatus, body |-> "OK"]

\* GET /health: the handler returns "OK".
Healthcheck ==
    /\ health' = Some(HealthResponse)
    /\ UNCHANGED <<pc, url, cmd, titleProc, fetchProc, title, fellBack,
                   filename, path, wrote, fileOpen, status, headers, message,
                   body, titleCalls, fetchCalls, disk, fetchArgs, tempfile, probe,
                   probed>>

\* The steps of one request: of its handler, its extractor processes, the
\* HTTP layer sending its response, and its client.
RequestNext(r) ==
    \/ \E q \in Queries : Receive(r, q)
    \/ \E l \in BOOLEAN : TitleSpawn(r, l)
    \/ \E st \in TitleStatuses, out \in TitleStdouts : TitleExit(r, st, out)
    \/ \E u \in Uuids, l \in BOOLEAN : FetchSpawn(r, u, l)
    \/ ExtractorWrite(r)
    \/ \E st \in VideoStatuses, out \in VideoOutputs, permitted \in BOOLEAN :
          FetchExit(r, st, out, permitted)
    \/ StreamStart(r)
    \/ StreamChunk(r)
    \/ StreamEnd(r)
    \/ StreamReadError(r)
    \/ ClientDisconnect(r)

Next ==
    \/ Healthcheck
    \/ \E r \in Requests : RequestNext(r)

Spec == Init /\ [][Next]_vars

\* ------------------------------------------- the classifiers on their own

\* The bytes the probed stdout is made of: line feed, space, '#', '%', 'a',
\* and the two bytes of e-acute (which alone or swapped are not UTF-8).
TitleBytes == {10, 32, 35, 37, 97, 195, 169}

\* The longest probed stdout.
MaxTitleLen == 4

ProbeStdouts == UNION {[1..n -> TitleBytes] : n \in 0..MaxTitleLen}
ProbeStderrs == {<<>>, <<255>>}

\* Every result of Command::output: the launch failed, or the process ended
\* with some status and some captured output.
ProbeInputs ==
    {NoOutput} \cup
    {Output(TRUE, st, out, errout) :
        st \in VideoStatuses, out \in ProbeStdouts, errout \in ProbeStderrs}

PureInit ==
    /\ ServerInit
    /\ probe \in ProbeInputs
    /\ probed = NoProbe

\* get_video_title and the title match of download_video, applied to probe.
ClassifyTitle ==
    /\ probed.kind = "none"
    /\ probed' = [kind |-> "title",
                  res |-> get_video_title(probe),
                  name |-> TitleFilename(get_video_title(probe)),
                  opened |-> FALSE]
    /\ UNCHANGED <<pc, url, cmd, titleProc, fetchProc, title, fellBack,
                   filename, path, wrote, fileOpen, status, headers, message,
                   body, titleCalls, fetchCalls, disk, fetchArgs, tempfile, health,
                   probe>>

\* get_video_stream applied to probe; the open of the temp file succeeds or not.
ClassifyStream(opened) ==
    /\ probed.kind = "none"
    /\ probed' = [kind |-> "stream",
                  res |-> get_video_stream(probe, opened),
                  name |-> <<>>,
                  opened |-> opened]
    /\ UNCHANGED <<pc, url, cmd, titleProc, fetchProc, title, fellBack,
                   filename, path, wrote, fileOpen, status, headers, message,
                   body, titleCalls, fetchCalls, disk, fetchArgs, tempfile, health,
                   probe>>

PureNext ==
    \/ ClassifyTitle
    \/ \E opened \in BOOLEAN : ClassifyStream(opened)

PureSpec == PureInit /\ [][PureNext]_vars

\* ------------------------------------------------------------------ claims

\* The phases in which the handler has returned the streaming response.
StreamStates == {"StreamReady", "Streaming", "Completed", "StreamFailed", "Abandoned"}

\* The phases after get_video_stream has returned.
AnsweredStates == StreamStates \cup {"FetchFailed"}

\* C1: once a request that allocated a temp file has ended (stream fully
\* sent, fetch-phase error, client disconnect mid-stream), the file at its
\* path no longer exists, and the stream's file is closed.  (Stated for the
\* requests with a non-empty url, the only ones the spec admits.)
C1_TempFileRemovedOnEveryExit ==
    \A r \in Requests :
        (url[r] # "" /\ path[r] # None
           /\ pc[r] \in {"Completed", "FetchFailed", "Abandoned"})
            => (disk[path[r][1]] = None /\ ~fileOpen[r])

\* C2: when the fetch-mode process ended with a non-zero code or without a
\* code, the response is 500 and no file is left at the request's path.
\* (Stated for the requests with a non-empty url.)
C2_FailedFetchLeavesNoFile ==
    \A r \in Requests :
        (url[r] # "" /\ fetchProc[r] = "exited" /\ cmd[r].status # Some(0))
            => (status[r] = ErrorStatus /\ disk[path[r][1]] = None)

\* The failures of a title-mode invocation C3 names.
TitleFailure(c) ==
    ~c.launched \/ c.status # Some(0) \/ ~Utf8Valid(c.stdout)

\* C3: a failed title-mode invocation (launch failure, non-zero exit, killed,
\* invalid UTF-8) never ends the request: the handler falls back to "video"
\* without answering, the fetch-mode invocation is still made, and a
\* successful fetch is answered 200 with filename=video.
C3_TitleFailureFallsBack ==
    \A r \in Requests :
        /\ (pc[r] \in {"TitleResolved", "TitleFallback"}
              /\ TitleFailure(cmd[r]))
             => /\ pc[r] = "TitleFallback"
                /\ fellBack[r]
                /\ filename[r] = VideoLiteral
                /\ status[r] = 0
                /\ ENABLED (\E u \in Uuids, l \in BOOLEAN : FetchSpawn(r, u, l))
        /\ fellBack[r]
             => /\ pc[r] \in {"TitleFallback", "VideoFetching"} \cup AnsweredStates
                /\ pc[r] # "TitleFallback" => fetchCalls[r] = 1
                /\ pc[r] \in StreamStates
                     => /\ status[r] = OkStatus
                        /\ headers[r].contentDisposition
                             = AttachmentPrefix \o VideoLiteral

\* C3 witness: a request whose title-mode output was not UTF-8 completed
\* its download as "video".
C3_Witness ==
    \E r \in Requests :
        /\ fellBack[r]
        /\ titleProc[r] = "exited"
        /\ pc[r] = "Completed"
        /\ body[r] # <<>>
        /\ headers[r].contentDisposition = AttachmentPrefix \o VideoLiteral

C5_NoTruncatedSuccess ==
    \A r \in Requests :
        (url[r] # "" /\ pc[r] \in {"FetchFailed", "Completed", "StreamFailed"})
            => \/ status[r] = OkStatus /\ body[r] = wrote[r]
               \/ /\ status[r] = ErrorStatus
                  /\ message[r] = GenericError
                  /\ body[r] = <<>>

\* C6: within one request the title-mode process has finished before the
\* fetch-mode process is started, and the fetch-mode process has exited
\* with code 0 before the file is open or a byte of the body is streamed;
\* no two of the three phases overlap.
C6_PhasesOrdered ==
    \A r \in Requests :
        /\ (fetchProc[r] # "none" \/ fetchCalls[r] > 0 \/ path[r] # None)
             => titleProc[r] \in {"exited", "unlaunched"}
        /\ (fileOpen[r] \/ body[r] # <<>> \/ pc[r] \in StreamStates)
             => /\ fetchProc[r] = "exited"
                /\ cmd[r].status = Some(0)
                /\ titleProc[r] \in {"exited", "unlaunched"}
        /\ ~(titleProc[r] = "running" /\ fetchProc[r] = "running")

\* C6 witness: a request is streaming its body after both processes exited.
C6_Witness ==
    \E r \in Requests :
        /\ pc[r] = "Streaming"
        /\ body[r] # <<>>
        /\ titleProc[r] = "exited"
        /\ fetchProc[r] = "exited"

\* C7: each request allocates exactly one temp path, the paths of different
\* requests differ, every file of the temp directory holds what the
\* extractor of the one request owning its path wrote, and every stream
\* reads the file of its own request.
C7_TempFilesNotShared ==
    /\ \A r \in Requests :
          /\ fetchCalls[r] <= 1
          /\ path[r] # None <=> fetchCalls[r] = 1
          /\ path[r] # None => path[r][1] \in Paths
          /\ IsPrefix(body[r], wrote[r])
    /\ \A r1, r2 \in Requests :
          (r1 # r2 /\ path[r1] # None) => path[r1] # path[r2]
    /\ \A p \in Paths :
          disk[p] # None
             => \E r \in Requests : path[r] = Some(p) /\ disk[p] = Some(wrote[r])

\* C7 witness: two requests for the same URL stream at the same time, each
\* from its own file.
C7_Witness ==
    \E r1, r2 \in Requests :
        /\ r1 # r2
        /\ url[r1] = "u1" /\ url[r2] = "u1"
        /\ pc[r1] = "Streaming" /\ pc[r2] = "Streaming"
        /\ body[r1] # <<>> /\ body[r2] = <<>>
        /\ path[r1] # path[r2]

\* The failures of a fetch-mode invocation C8 names, but for the open.
FetchFailure(c) == ~c.launched \/ c.status # Some(0)

\* C8: every fetch-phase failure (launch failure, non-zero exit, killed,
\* the file not opening) ends the request in the one response 500 with the
\* fixed generic body, whatever the failure, and nothing is streamed.
C8_FetchFailureGeneric ==
    \A r \in Requests :
        /\ pc[r] = "FetchFailed"
             => /\ status[r] = ErrorStatus
                /\ message[r] = GenericError
                /\ headers[r] = ErrorHeaders
                /\ body[r] = <<>>
                /\ ~fileOpen[r]
        /\ fetchProc[r] \in {"exited", "unlaunched"}
             => /\ pc[r] \in AnsweredStates
                /\ (FetchFailure(cmd[r]) \/ disk[path[r][1]] = None)
                     => pc[r] = "FetchFailed"

\* C8 witness: one request failed on exit code 2 and another on the launch,
\* a third kind being the open of a file the extractor never created.
C8_Witness ==
    \E r1, r2 \in Requests :
        /\ pc[r1] = "FetchFailed" /\ pc[r2] = "FetchFailed"
        /\ cmd[r1].status = Some(2)
        /\ fetchProc[r2] = "unlaunched"
        /\ message[r1] = message[r2]

\* C9: no retry: a request invokes the extractor at most once in each mode,
\* and exactly once in each by the time it is answered, whatever the
\* outcomes.
C9_NoRetry ==
    \A r \in Requests :
        /\ titleCalls[r] <= 1
        /\ fetchCalls[r] <= 1
        /\ titleCalls[r] = 1 <=> titleProc[r] # "none"
        /\ fetchCalls[r] = 1 <=> fetchProc[r] # "none"
        /\ pc[r] \in AnsweredStates => (titleCalls[r] = 1 /\ fetchCalls[r] = 1)

\* C9 witness: both invocations of a request failed and it was answered.
C9_Witness ==
    \E r \in Requests :
        /\ pc[r] = "FetchFailed"
        /\ fellBack[r]
        /\ titleProc[r] = "exited"
        /\ fetchProc[r] = "exited"
        /\ titleCalls[r] = 1
        /\ fetchCalls[r] = 1

\* C10: no extractor invocation is made for an empty url.
C10_UrlNonEmpty ==
    \A r \in Requests :
        (titleCalls[r] > 0 \/ fetchCalls[r] > 0) => url[r] # ""

\* What a download request reads and writes: everything but health.
DownloadState ==
    <<pc, url, cmd, titleProc, fetchProc, title, fellBack, filename, path,
      wrote, fileOpen, status, headers, message, body, titleCalls,
      fetchCalls, disk, fetchArgs, tempfile>>

\* C11: GET /health can be answered in every reachable state, its response
\* is always 200 with body OK whatever the requests in flight and their
\* extractors do, and answering it starts no process and touches no file
\* (it changes nothing of the downloads' state).
C11_HealthAlwaysOk ==
    /\ [](ENABLED Healthcheck)
    /\ [](health # None => health[1] = [status |-> 200, body |-> "OK"])
    /\ [][health' # health => UNCHANGED DownloadState]_vars

\* C11 witness: /health was answered, and one request has its fetch-mode
\* extractor running while the other is streaming.
C11_Witness ==
    /\ health # None
    /\ \E r1, r2 \in Requests :
          /\ fetchProc[r1] = "running"
          /\ pc[r2] = "Streaming"

\* Percent-decoding, as a client of the header does it: %XY with two
\* hexadecimal digits is the byte 16X+Y, every other byte stands for itself.
FromHex(b) ==
    IF b >= 48 /\ b <= 57 THEN b - 48
    ELSE IF b >= 65 /\ b <= 70 THEN b - 55
    ELSE IF b >= 97 /\ b <= 102 THEN b - 87
    ELSE -1

RECURSIVE decode(_)
decode(s) ==
    IF s = <<>> THEN <<>>
    ELSE IF s[1] = 37 /\ Len(s) >= 3 /\ FromHex(s[2]) >= 0 /\ FromHex(s[3]) >= 0
         THEN <<16 * FromHex(s[2]) + FromHex(s[3])>> \o decode(Drop(s, 3))
    ELSE <<s[1]>> \o decode(Tail(s))

\* C12: for every title the extractor reports (exit 0, UTF-8 stdout), the
\* Content-Disposition header is "attachment; filename=" followed by a name
\* whose percent-decoding is the title, the stdout trimmed, byte for byte.
C12_FilenameRoundTrip ==
    (/\ probed.kind = "title"
     /\ probe.launched
     /\ probe.status = Some(0)
     /\ Utf8Valid(probe.stdout))
    => LET value == DownloadHeaders(probed.name).contentDisposition
       IN  /\ HeaderValueValid(value)
           /\ IsPrefix(AttachmentPrefix, value)
           /\ decode(Drop(value, Len(AttachmentPrefix))) = trim(probe.stdout)

\* The title "# <e-acute>" ('#', a space, a non-ASCII character) went through.
C12_Witness ==
    /\ probed.kind = "title"
    /\ probe.launched
    /\ probe.status = Some(0)
    /\ probe.stdout = <<35, 32, 195, 169>>
    /\ probed.name = <<37, 50, 51, 37, 50, 48, 37, 67, 51, 37, 65, 57>>

\* C13: the result of get_video_stream is decided by the exit status and the
\* open of the temp file alone: when the fetch-mode process exits with code 0
\* and the file opens, the result is Ok whatever stdout and stderr hold.
C13_FetchOutcomeFromStatusAlone ==
    (/\ probed.kind = "stream"
     /\ probe.launched
     /\ probe.status = Some(0)
     /\ probed.opened)
    => probed.res.ok

\* The title of a stdout: what is left of it between its first and its last
\* character that is not whitespace.
IsTrimOf(t, out) ==
    /\ LeadingWs(t) = 0
    /\ TrailingWs(t) = 0
    /\ \E i \in 0..Len(out) :
          /\ i + Len(t) <= Len(out)
          /\ SubSeq(out, i + 1, i + Len(t)) = t
          /\ trim(SubSeq(out, 1, i)) = <<>>
          /\ trim(Drop(out, i + Len(t))) = <<>>

\* C14: get_video_title classifies a title-mode invocation by launch, exit
\* status and stdout: launch failure gives TitleCommand; no exit code gives
\* TitleExitNoCode; a code c other than 0 gives TitleExitErrorCode(c) whatever
\* stdout holds; code 0 with stdout that is not UTF-8 gives FromUtf8; code 0
\* with UTF-8 stdout gives Ok of the stdout without surrounding whitespace.
C14_TitleClassification ==
    probed.kind = "title" =>
        /\ ~probe.launched => probed.res = Err("TitleCommand", None)
        /\ (probe.launched /\ probe.status = None)
              => probed.res = Err("TitleExitNoCode", None)
        /\ (probe.launched /\ probe.status # None /\ probe.status # Some(0))
              => probed.res = Err("TitleExitErrorCode", probe.status)
        /\ (probe.launched /\ probe.status = Some(0) /\ ~Utf8Valid(probe.stdout))
              => probed.res = Err("FromUtf8", None)
        /\ (probe.launched /\ probe.status = Some(0) /\ Utf8Valid(probe.stdout))
              => /\ probed.res.ok
                 /\ IsTrimOf(probed.res.val, probe.stdout)

\* A non-zero exit code with stdout that is not UTF-8 was classified by the code.
C14_Witness ==
    /\ probed.kind = "title"
    /\ probe.launched
    /\ probe.status = Some(2)
    /\ ~Utf8Valid(probe.stdout)
    /\ probed.res = Err("TitleExitErrorCode", Some(2))

\* The transitions of the request state machine.  A command that cannot be
\* launched fails inside get_video_title (get_video_stream): the request
\* passes TitleResolving (VideoFetching) within the step.
MachineTransitions ==
    {<<"Received", "TitleResolving">>, <<"Received", "TitleFallback">>,
     <<"TitleResolving", "TitleResolved">>, <<"TitleResolving", "TitleFallback">>,
     <<"TitleResolved", "VideoFetching">>, <<"TitleFallback", "VideoFetching">>,
     <<"TitleResolved", "FetchFailed">>, <<"TitleFallback", "FetchFailed">>,
     <<"VideoFetching", "StreamReady">>, <<"VideoFetching", "FetchFailed">>,
     <<"StreamReady", "Streaming">>, <<"Streaming", "Completed">>}

\* The ways a response under way ends other than by its last byte.
BrokenStreamTransitions ==
    {<<"Streaming", "StreamFailed">>, <<"Streaming", "Abandoned">>}

\* A request that was received and for which nothing more can happen.
Stopped(r) == pc[r] \notin {"Idle", "Rejected"} /\ ~ENABLED RequestNext(r)

\* Every change of state of a received request is one of the transitions ts.
MovesAlong(ts) ==
    \A r \in Requests :
        (pc[r] \notin {"Idle"} /\ pc'[r] # pc[r]) => <<pc[r], pc'[r]>> \in ts

FileOf(d, r) == IF path[r] = None THEN None ELSE d[path[r][1]]

\* C16: while a request is in StreamReady, Streaming or Completed none of its
\* extractor processes runs and none can write; the file is opened only in
\* the step in which the fetch-mode process exits with code 0, and while it
\* is open no step changes it.
C16_NoExtractorWhileStreaming ==
    /\ [](\A r \in Requests :
            pc[r] \in {"StreamReady", "Streaming", "Completed"}
                => /\ titleProc[r] # "running"
                   /\ fetchProc[r] # "running"
                   /\ ~ENABLED ExtractorWrite(r))
    /\ [][\A r \in Requests :
            /\ (~fileOpen[r] /\ fileOpen'[r])
                  => /\ fetchProc[r] = "running"
                     /\ fetchProc'[r] = "exited"
                     /\ cmd'[r].status = Some(0)
            /\ fileOpen[r] => FileOf(disk', r) = FileOf(disk, r)]_vars

\* One request streams its file while the extractor of the other is writing.
C16_Witness ==
    \E r1, r2 \in Requests :
        /\ pc[r1] = "Streaming"
        /\ fileOpen[r1]
        /\ body[r1] # <<>>
        /\ fetchProc[r2] = "running"
        /\ wrote[r2] # <<>>

\* The arguments of a fetch-mode command other than the path after -o.
ApartFromPath(args) == SubSeq(args, 1, 5) \o SubSeq(args, 7, Len(args))

\* Two requests that reached the fetch as two runs of the same request: the
\* same url, the same fate and output of the fetch-mode process, the same
\* file written, the same result of File::open.
SameFetch(r1, r2) ==
    /\ fetchCalls[r1] = 1 /\ fetchCalls[r2] = 1
    /\ url[r1] = url[r2]
    /\ fetchProc[r1] = fetchProc[r2]
    /\ cmd[r1] = cmd[r2]
    /\ wrote[r1] = wrote[r2]
    /\ tempfile[r1] = tempfile[r2]

\* C17: two runs that differ only in the result of the title-mode invocation
\* launch the fetch-mode command with the same arguments apart from the
\* path, are answered both or neither, with the same status, Content-Type
\* and error message, and their bodies agree byte for byte as far as both
\* were read (and are equal once both completed).
C17_TitleOnlyNamesTheFile ==
    \A r1, r2 \in Requests :
        (r1 # r2 /\ SameFetch(r1, r2))
            => /\ ApartFromPath(fetchArgs[r1][1]) = ApartFromPath(fetchArgs[r2][1])
               /\ status[r1] = status[r2]
               /\ headers[r1].contentType = headers[r2].contentType
               /\ message[r1] = message[r2]
               /\ pc[r1] = "FetchFailed" <=> pc[r2] = "FetchFailed"
               /\ IsPrefix(body[r1], body[r2]) \/ IsPrefix(body[r2], body[r1])
               /\ (pc[r1] = "Completed" /\ pc[r2] = "Completed")
                     => body[r1] = body[r2]

\* Two completed downloads of the same url, one under its resolved title and
\* one under the fallback name after the title-mode command failed.
C17_Witness ==
    \E r1, r2 \in Requests :
        /\ r1 # r2 /\ SameFetch(r1, r2)
        /\ url[r1] # ""
        /\ title[r1] # None /\ fellBack[r2]
        /\ headers[r1].contentDisposition # headers[r2].contentDisposition
        /\ pc[r1] = "Completed" /\ pc[r2] = "Completed"
        /\ Len(body[r1]) = MaxFileLen

\* C18: when every extractor invocation exits and the client keeps reading,
\* every request reaches Completed or FetchFailed.  In the form of the runs
\* that have come to their end: a received request whose client did not
\* disconnect and for which no step remains is in Completed or FetchFailed.
\* (Stated for the requests with a non-empty url.)
C18_EndsCompletedOrFetchFailed ==
    \A r \in Requests :
        (url[r] # "" /\ pc[r] \notin {"Abandoned"} /\ Stopped(r))
            => pc[r] \in {"Completed", "FetchFailed"}

====
